---------------------------- MODULE Spec2Model ----------------------------
(***************************************************************************)
(* Stash It messaging service                                              *)
(* (backend-StashIt/services/messaging-service/server.js).                 *)
(*                                                                         *)
(* The state is the service's process-local state (the activeUsers         *)
(* registry, the socket.io namespace: live sockets and their rooms), the   *)
(* conversations and messages tables it reads and writes through Prisma,   *)
(* and the asynchronous handlers that are suspended on an await.  A        *)
(* handler is cut at its awaits: the action that starts it runs the        *)
(* synchronous prefix and issues the first query; each later action is     *)
(* one query executing in the database followed by the continuation up to  *)
(* the next await (or the handler's end).  Any suspended handler may take  *)
(* the next step, so queries of different handlers complete in any order.  *)
(* A query may also fail (the Prisma call rejects), which runs the         *)
(* handler's catch block.                                                  *)
(*                                                                         *)
(* out holds the events the last step delivered, last says which step it   *)
(* was.                                                                    *)
(***************************************************************************)
EXTENDS Integers, Sequences, FiniteSets, TLC

\* ------------------------------------------------------------------ bounds
MaxSockets == 2         \* connections accepted over a run
MaxConversations == 1   \* rows of the conversations table
MaxMessages == 2        \* rows of the messages table
MaxTasks == 2           \* handlers suspended on an await at one time
MaxCreated == 2         \* rows POST /messages/conversation creates over a run

Users == {"A", "B", "C"}
Products == {"p1"}

\* Ids a client can name in a payload: those of rows that exist, and those of
\* rows that do not exist (yet).
ConversationIds == 1..MaxConversations

\* ---------------------------------------------------------- JS values
\* The content field of a send-message payload: absent, a string (a sequence
\* of characters) or a value of another type.
Str(chars) == [type |-> "string", chars |-> chars]
Undefined == [type |-> "undefined", chars |-> <<>>]
Number == [type |-> "number", chars |-> <<>>]
Contents ==
    { Undefined, Number, Str(<<>>), Str(<<" ">>), Str(<<" ", " ">>),
      Str(<<" ", "h", "i", " ">>) }
\* The productId field of a send-message payload: a product that is not the
\* conversation's.
ClientProductIds == {"p2"}

RECURSIVE TrimStart(_)
TrimStart(chars) ==
    IF chars # <<>> /\ Head(chars) = " " THEN TrimStart(Tail(chars)) ELSE chars

RECURSIVE TrimEnd(_)
TrimEnd(chars) ==
    IF chars # <<>> /\ chars[Len(chars)] = " "
    THEN TrimEnd(SubSeq(chars, 1, Len(chars) - 1))
    ELSE chars

\* String.prototype.trim on the characters of a string.
Trim(chars) == TrimEnd(TrimStart(chars))

\* !content
Falsy(content) ==
    \/ content.type = "undefined"
    \/ content.type = "string" /\ content.chars = <<>>

\* ------------------------------------------------------------------ state
VARIABLES
    conversations,  \* conversations table: set of rows
    messages,       \* messages table: set of rows
    socketUser,     \* socket.userId of every connection accepted so far
    connected,      \* the namespace's live sockets (io.sockets.sockets)
    rooms,          \* the adapter: the rooms of every socket id
    activeUsers,    \* the activeUsers Map: userId -> socket id (0: no entry)
    tasks,          \* handlers suspended on an await, in order of arrival
    out,            \* events delivered by the last step
    last            \* the last step

vars == <<conversations, messages, socketUser, connected, rooms,
          activeUsers, tasks, out, last>>

SocketIds == 1..Len(socketUser)

ConversationRoom(conversationId) == <<"conversation", conversationId>>

\* Mutant of UserRoom: one channel for all users.
UserRoomShared(userId) == <<"user", "*">>

UserRoom(userId) == <<"user", userId>>

NoMessage ==
    [id |-> 0, senderId |-> "", receiverId |-> "", productId |-> "",
     content |-> <<>>, isRead |-> FALSE]

\* An event delivered to socket `to`.
Event(ev, to, conv, msg, text) ==
    [ev |-> ev, to |-> to, conv |-> conv, msg |-> msg, text |-> text]

\* A step of a handler: which one, on which connection and conversation,
\* whether its query succeeded, and the id of the message it handles.
Step(op, sock, conv, ok, msg) ==
    [op |-> op, sock |-> sock, conv |-> conv, ok |-> ok, msg |-> msg]

\* A suspended handler.
Task(kind, pc, sock, user, conv, pid, content, found, msg) ==
    [kind |-> kind, pc |-> pc, sock |-> sock, user |-> user, conv |-> conv,
     pid |-> pid, content |-> content, found |-> found, msg |-> msg]

NoConversation ==
    [id |-> 0, user1Id |-> "", user2Id |-> "", productId |-> "",
     lastMessageAt |-> 0]

\* No handler is running: the last step's events are on the wire.
Idle == last.op = "idle"

Remove(seq, i) == SubSeq(seq, 1, i - 1) \o SubSeq(seq, i + 1, Len(seq))

\* Mutant of Resumable: handlers resume in their order of arrival.
ResumableInOrder(i) == i = 1 /\ Len(tasks) >= 1

\* The i-th suspended handler: its query settles whenever the store answers,
\* whatever the other handlers are waiting for.
Resumable(i) == i \in 1..Len(tasks)

\* ------------------------------------------------------- socket.io emits
\* socket.emit(ev, ...): written to the connection if it is still open.
SocketEmit(s, ev, conv, msg, text) ==
    IF s \in connected THEN {Event(ev, s, conv, msg, text)} ELSE {}

\* The live sockets in a room: a broadcast enumerates the room's socket ids
\* and skips those the namespace no longer holds.
Members(room) == {s \in connected : room \in rooms[s]}

\* Mutant of RoomEmit: io.emit(ev, ...), to every live socket.
RoomEmitAll(room, ev, conv, msg, text) ==
    {Event(ev, s, conv, msg, text) : s \in connected}

\* io.to(room).emit(ev, ...)
RoomEmit(room, ev, conv, msg, text) ==
    {Event(ev, s, conv, msg, text) : s \in Members(room)}

\* --------------------------------------------------------- Prisma queries
\* findFirst: a row of the set, or null.
FindFirst(rows) == IF rows = {} THEN NoConversation ELSE CHOOSE c \in rows : TRUE

\* ------------------------------------------------------------ connection
\* The body of the io.on('connection') listener for the new socket of user u:
\* the registry entry and the personal channel.
ConnectionListener(u) ==
    LET s == Len(socketUser) + 1 IN
    /\ socketUser' = Append(socketUser, u)
    /\ connected' = connected \cup {s}
    /\ activeUsers' = [activeUsers EXCEPT ![u] = s]
    /\ rooms' = Append(rooms, {UserRoom(u)})

\* io.on('connection'): a connection that passed authenticateSocket as
\* user u.
Connect(u) ==
    /\ Idle
    /\ Len(socketUser) < MaxSockets
    /\ ConnectionListener(u)
    /\ last' = Step("connect", Len(socketUser) + 1, 0, TRUE, 0)
    /\ out' = {}
    /\ UNCHANGED <<conversations, messages, tasks>>

\* Mutant of Disconnect: the listener leaves the registry alone.
DisconnectKeepsEntry(s) ==
    /\ Idle
    /\ s \in connected
    /\ connected' = connected \ {s}
    /\ rooms' = [rooms EXCEPT ![s] = {}]
    /\ out' = {}
    /\ last' = Step("disconnect", s, 0, TRUE, 0)
    /\ UNCHANGED <<conversations, messages, socketUser, tasks, activeUsers>>

\* socket.on('disconnect'): socket.io has left every room and dropped the
\* socket from the namespace before the handler runs.
Disconnect(s) ==
    /\ Idle
    /\ s \in connected
    /\ connected' = connected \ {s}
    /\ rooms' = [rooms EXCEPT ![s] = {}]
    /\ activeUsers' = [activeUsers EXCEPT ![socketUser[s]] = 0]
    /\ out' = {}
    /\ last' = Step("disconnect", s, 0, TRUE, 0)
    /\ UNCHANGED <<conversations, messages, socketUser, tasks>>

\* ------------------------------------------------------- join / leave
\* socket.on('join-conversation'): up to the await of findFirst.
JoinConversation(s, conversationId) ==
    /\ Idle
    /\ s \in connected
    /\ Len(tasks) < MaxTasks
    /\ tasks' = Append(tasks, Task("join", "find", s, socketUser[s],
                                   conversationId, "", Undefined,
                                   NoConversation, NoMessage))
    /\ out' = {}
    /\ last' = Step("join", s, conversationId, TRUE, 0)
    /\ UNCHANGED <<conversations, messages, socketUser, connected,
                   rooms, activeUsers>>

\* Mutant of JoinLookup: the where clause without the OR on the participants.
JoinLookupAnyUser(conversationId, userId) ==
    FindFirst({c \in conversations : c.id = conversationId})

\* The query of join-conversation:
\* findFirst({where: {id: conversationId, OR: [{user1Id}, {user2Id}]}})
JoinLookup(conversationId, userId) ==
    FindFirst({c \in conversations :
                 /\ c.id = conversationId
                 /\ (c.user1Id = userId \/ c.user2Id = userId)})

\* join-conversation: findFirst settles and the handler runs to its end.
JoinFind(i) ==
    /\ Idle
    /\ Resumable(i)
    /\ tasks[i].kind = "join"
    /\ LET t == tasks[i]
           s == t.sock
       IN \E ok \in BOOLEAN :
          LET conversation == JoinLookup(t.conv, t.user) IN
          /\ IF ~ok
             THEN /\ out' = SocketEmit(s, "error", 0, NoMessage,
                                       "Failed to join conversation")
                  /\ rooms' = rooms
             ELSE IF conversation # NoConversation
             THEN /\ rooms' = [rooms EXCEPT
                                 ![s] = @ \cup {ConversationRoom(t.conv)}]
                  /\ out' = SocketEmit(s, "joined-conversation", t.conv,
                                       NoMessage, "")
             ELSE /\ out' = SocketEmit(s, "error", 0, NoMessage,
                                "Not authorized to join this conversation")
                  /\ rooms' = rooms
          /\ last' = Step("join.find", s, t.conv, ok, 0)
    /\ tasks' = Remove(tasks, i)
    /\ UNCHANGED <<conversations, messages, socketUser, connected,
                   activeUsers>>

\* Mutant of LeaveRooms: the socket leaves every room it is in.
LeaveAllRooms(rs, s, room) == [rs EXCEPT ![s] = {}]

\* socket.leave(room) on the adapter's rooms rs.
LeaveRooms(rs, s, room) == [rs EXCEPT ![s] = @ \ {room}]

\* socket.on('leave-conversation')
LeaveConversation(s, conversationId) ==
    /\ Idle
    /\ s \in connected
    /\ rooms' = LeaveRooms(rooms, s, ConversationRoom(conversationId))
    /\ out' = SocketEmit(s, "left-conversation", conversationId, NoMessage, "")
    /\ last' = Step("leave", s, conversationId, TRUE, 0)
    /\ UNCHANGED <<conversations, messages, socketUser, connected,
                   activeUsers, tasks>>

\* --------------------------------------------------------- send-message
\* Mutant of ContentCheck: the condition without content.trim().
ContentCheckNoTrim(content) ==
    IF Falsy(content) THEN "empty"
    ELSE IF content.type # "string" THEN "throws"
    ELSE "ok"

\* The content validation of send-message: "empty" when the handler rejects
\* the content, "throws" when evaluating the condition raises (trim is not a
\* function of a non-string), "ok" otherwise.
ContentCheck(content) ==
    IF Falsy(content) THEN "empty"
    ELSE IF content.type # "string" THEN "throws"
    ELSE IF Len(Trim(content.chars)) = 0 THEN "empty"
    ELSE "ok"

\* Mutant of ReceiverId: always the conversation's second participant.
ReceiverIdUser2(conversation, userId) == conversation.user2Id

\* receiverId of send-message
ReceiverId(conversation, userId) ==
    IF conversation.user1Id = userId
    THEN conversation.user2Id
    ELSE conversation.user1Id

\* Mutant of MessageData: productId taken from the client's payload.
MessageDataClientProduct(t) ==
    [id |-> Cardinality(messages) + 1,
     senderId |-> t.user,
     receiverId |-> ReceiverId(t.found, t.user),
     productId |-> t.pid,
     content |-> Trim(t.content.chars),
     isRead |-> FALSE]

\* The data of prisma.message.create in send-message; is_read takes the
\* column's default.
MessageData(t) ==
    [id |-> Cardinality(messages) + 1,
     senderId |-> t.user,
     receiverId |-> ReceiverId(t.found, t.user),
     productId |-> t.found.productId,
     content |-> Trim(t.content.chars),
     isRead |-> FALSE]

\* Mutant of SendCatch: the error is emitted and the message is broadcast all
\* the same.
SendCatchAndBroadcast(i) ==
    /\ out' = SocketEmit(tasks[i].sock, "error", 0, NoMessage,
                         "Failed to send message")
               \cup RoomEmit(ConversationRoom(tasks[i].conv), "new-message",
                             tasks[i].conv, tasks[i].msg, "")
    /\ tasks' = Remove(tasks, i)

\* Mutant of SendCatch: the error is logged and not emitted.
SendCatchSilent(i) ==
    /\ out' = {}
    /\ tasks' = Remove(tasks, i)

\* The catch block of send-message.
SendCatch(i) ==
    /\ out' = SocketEmit(tasks[i].sock, "error", 0, NoMessage,
                         "Failed to send message")
    /\ tasks' = Remove(tasks, i)

\* socket.on('send-message'): up to the await of findFirst.
SendMessage(s, conversationId, content, productId) ==
    /\ Idle
    /\ s \in connected
    /\ LET check == ContentCheck(content) IN
       /\ IF check = "empty"
          THEN /\ out' = SocketEmit(s, "error", 0, NoMessage,
                                    "Message content cannot be empty")
               /\ tasks' = tasks
          ELSE IF check = "throws"
          THEN /\ out' = SocketEmit(s, "error", 0, NoMessage,
                                    "Failed to send message")
               /\ tasks' = tasks
          ELSE /\ Len(tasks) < MaxTasks
               /\ tasks' = Append(tasks, Task("send", "find", s, socketUser[s],
                                              conversationId, productId,
                                              content, NoConversation,
                                              NoMessage))
               /\ out' = {}
       /\ last' = Step("send", s, conversationId, check = "ok", 0)
    /\ UNCHANGED <<conversations, messages, socketUser, connected,
                   rooms, activeUsers>>

\* Mutant of SendLookup: the where clause without the OR on the participants.
SendLookupAnyUser(conversationId, userId) ==
    FindFirst({c \in conversations : c.id = conversationId})

\* The first query of send-message:
\* findFirst({where: {id: conversationId, OR: [{user1Id}, {user2Id}]}})
SendLookup(conversationId, userId) ==
    FindFirst({c \in conversations :
                 /\ c.id = conversationId
                 /\ (c.user1Id = userId \/ c.user2Id = userId)})

\* send-message: findFirst settles; the handler runs to the await of
\* message.create.
SendFind(i) ==
    /\ Idle
    /\ Resumable(i)
    /\ tasks[i].kind = "send"
    /\ tasks[i].pc = "find"
    /\ LET t == tasks[i] IN
       \E ok \in BOOLEAN :
          LET conversation == SendLookup(t.conv, t.user) IN
          /\ IF ~ok
             THEN SendCatch(i)
             ELSE IF conversation = NoConversation
             THEN /\ out' = SocketEmit(t.sock, "error", 0, NoMessage,
                                       "Conversation not found")
                  /\ tasks' = Remove(tasks, i)
             ELSE /\ out' = {}
                  /\ tasks' = [tasks EXCEPT ![i].pc = "create",
                                            ![i].found = conversation]
          /\ last' = Step("send.find", t.sock, t.conv, ok, 0)
    /\ UNCHANGED <<conversations, messages, socketUser, connected,
                   rooms, activeUsers>>

\* send-message: message.create settles; the handler runs to the await of
\* conversation.update.
SendCreate(i) ==
    /\ Idle
    /\ Resumable(i)
    /\ tasks[i].kind = "send"
    /\ tasks[i].pc = "create"
    /\ LET t == tasks[i] IN
       \E ok \in BOOLEAN :
          LET message == MessageData(t) IN
          /\ IF ~ok
             THEN /\ SendCatch(i)
                  /\ messages' = messages
             ELSE /\ Cardinality(messages) < MaxMessages
                  /\ messages' = messages \cup {message}
                  /\ out' = {}
                  /\ tasks' = [tasks EXCEPT ![i].pc = "update",
                                            ![i].msg = message]
          /\ last' = Step("send.create", t.sock, t.conv, ok, IF ok THEN message.id ELSE 0)
    /\ UNCHANGED <<conversations, socketUser, connected, rooms,
                   activeUsers>>

\* new Date() / CURRENT_TIMESTAMP: the clock reads the number of messages
\* stored so far, 0 before the first one.
Now == Cardinality(messages)

\* prisma.conversation.update({where: {id}, data: {lastMessageAt: new Date()}})
TouchConversation(conversationId) ==
    {IF c.id = conversationId THEN [c EXCEPT !.lastMessageAt = Now] ELSE c :
        c \in conversations}

\* Mutant of NewMessageEmit: socket.to(room), which leaves the sender out.
NewMessageEmitToOthers(t) ==
    {e \in RoomEmit(ConversationRoom(t.conv), "new-message", t.conv, t.msg, "") :
        e.to # t.sock}

\* io.to(`conversation:${conversationId}`).emit('new-message', message)
NewMessageEmit(t) ==
    RoomEmit(ConversationRoom(t.conv), "new-message", t.conv, t.msg, "")

\* Mutant of NotificationEmit: the notification goes to the conversation's
\* room.
NotificationEmitToRoom(t) ==
    RoomEmit(ConversationRoom(t.conv), "message-notification", t.conv, t.msg, "")

\* io.to(`user:${receiverId}`).emit('message-notification', {...})
NotificationEmit(t) ==
    RoomEmit(UserRoom(ReceiverId(t.found, t.user)), "message-notification",
             t.conv, t.msg, "")

\* send-message: conversation.update settles; the handler runs to its end.
SendUpdate(i) ==
    /\ Idle
    /\ Resumable(i)
    /\ tasks[i].kind = "send"
    /\ tasks[i].pc = "update"
    /\ LET t == tasks[i] IN
       \E ok \in BOOLEAN :
          /\ IF ~ok
             THEN /\ SendCatch(i)
                  /\ conversations' = conversations
             ELSE /\ conversations' = TouchConversation(t.conv)
                  /\ out' = NewMessageEmit(t) \cup NotificationEmit(t)
                  /\ tasks' = Remove(tasks, i)
          /\ last' = Step("send.update", t.sock, t.conv, ok, t.msg.id)
    /\ UNCHANGED <<messages, socketUser, connected, rooms, activeUsers>>

\* ------------------------------------------- POST /messages/conversation
\* What a client can put in the request body.
ProductInputs == Products \cup {"p0"}

HttpResponse(status, conversationId) ==
    {Event("http", 0, conversationId, NoMessage, status)}

\* POST /messages/conversation by user u: up to the await of
\* product.findUnique.
PostConversation(u, productId, receiverId) ==
    /\ Idle
    /\ Len(tasks) < MaxTasks
    /\ tasks' = Append(tasks, Task("post", "product", 0, u, 0, productId,
                                   Str(<<>>), 
                                   [NoConversation EXCEPT
                                      !.user1Id = u, !.user2Id = receiverId,
                                      !.productId = productId],
                                   NoMessage))
    /\ out' = {}
    /\ last' = Step("post", 0, 0, TRUE, 0)
    /\ UNCHANGED <<conversations, messages, socketUser, connected,
                   rooms, activeUsers>>

\* The catch block of POST /messages/conversation.
PostCatch(i) ==
    /\ out' = HttpResponse("500", 0)
    /\ tasks' = Remove(tasks, i)

\* Mutant of SelfConversation: the check is left out.
SelfConversationAllowed(userId, receiverId) == FALSE

\* req.userId === receiverId
SelfConversation(userId, receiverId) == userId = receiverId

\* product.findUnique settles; the handler runs to the await of findFirst.
PostProduct(i) ==
    /\ Idle
    /\ Resumable(i)
    /\ tasks[i].kind = "post"
    /\ tasks[i].pc = "product"
    /\ LET t == tasks[i] IN
       \E ok \in BOOLEAN :
          /\ IF ~ok
             THEN PostCatch(i)
             ELSE IF t.pid \notin Products
             THEN /\ out' = HttpResponse("404", 0)
                  /\ tasks' = Remove(tasks, i)
             ELSE IF SelfConversation(t.user, t.found.user2Id)
             THEN /\ out' = HttpResponse("400", 0)
                  /\ tasks' = Remove(tasks, i)
             ELSE /\ out' = {}
                  /\ tasks' = [tasks EXCEPT ![i].pc = "find"]
          /\ last' = Step("post.product", 0, 0, ok, 0)
    /\ UNCHANGED <<conversations, messages, socketUser, connected,
                   rooms, activeUsers>>

\* The existing-conversation query of POST /messages/conversation.
ExistingConversations(productId, userId, receiverId) ==
    {c \in conversations :
        /\ c.productId = productId
        /\ \/ c.user1Id = userId /\ c.user2Id = receiverId
           \/ c.user1Id = receiverId /\ c.user2Id = userId}

\* findFirst settles; the handler runs to the await of conversation.create.
PostFind(i) ==
    /\ Idle
    /\ Resumable(i)
    /\ tasks[i].kind = "post"
    /\ tasks[i].pc = "find"
    /\ LET t == tasks[i]
           existing == ExistingConversations(t.pid, t.user, t.found.user2Id)
       IN \E ok \in BOOLEAN :
          /\ IF ~ok
             THEN PostCatch(i)
             ELSE IF existing # {}
             THEN /\ \E c \in existing : out' = HttpResponse("200", c.id)
                  /\ tasks' = Remove(tasks, i)
             ELSE /\ out' = {}
                  /\ tasks' = [tasks EXCEPT ![i].pc = "create"]
          /\ last' = Step("post.find", 0, 0, ok, 0)
    /\ UNCHANGED <<conversations, messages, socketUser, connected,
                   rooms, activeUsers>>

\* The unique index conversations_user1_id_user2_id_product_id_key.
UniqueViolation(row) ==
    \E c \in conversations :
        /\ c.user1Id = row.user1Id
        /\ c.user2Id = row.user2Id
        /\ c.productId = row.productId

\* conversation.create settles; the handler runs to its end.
PostCreate(i) ==
    /\ Idle
    /\ Resumable(i)
    /\ tasks[i].kind = "post"
    /\ tasks[i].pc = "create"
    /\ LET t == tasks[i]
           row == [t.found EXCEPT !.id = Cardinality(conversations) + 1,
                                  !.lastMessageAt = Now]
       IN \E ok \in BOOLEAN :
          /\ IF ~ok \/ UniqueViolation(row)
             THEN /\ PostCatch(i)
                  /\ conversations' = conversations
             ELSE /\ Cardinality(conversations) < MaxCreated
                  /\ conversations' = conversations \cup {row}
                  /\ out' = HttpResponse("201", row.id)
                  /\ tasks' = Remove(tasks, i)
          /\ last' = Step("post.create", 0, 0, ok, 0)
    /\ UNCHANGED <<messages, socketUser, connected, rooms, activeUsers>>

\* ------------------------------------------------------ typing / online
\* The argument of a typing or stop-typing event: an object with a
\* conversationId, or nothing at all.
Payload(conversationId) == [type |-> "object", conversationId |-> conversationId]
NoPayload == [type |-> "undefined", conversationId |-> 0]
TypingPayloads == {NoPayload} \cup {Payload(c) : c \in ConversationIds}

\* An exception leaves a listener that has no try/catch: nothing handles
\* it (no 'uncaughtException' listener is installed), the process exits,
\* and with it go every connection, the registry and the suspended handlers.
Crash(s) ==
    /\ connected' = {}
    /\ rooms' = [r \in DOMAIN rooms |-> {}]
    /\ activeUsers' = [u \in Users |-> 0]
    /\ tasks' = <<>>
    /\ out' = {}
    /\ last' = Step("crash", s, 0, FALSE, 0)
    /\ UNCHANGED <<conversations, messages, socketUser>>

\* Mutant of BroadcastEmit: io.to(room), which includes the sender.
BroadcastEmitAll(s, room, ev, conv, text) ==
    RoomEmit(room, ev, conv, NoMessage, text)

\* socket.to(room).emit(ev, ...): the room's live sockets except s.
BroadcastEmit(s, room, ev, conv, text) ==
    {e \in RoomEmit(room, ev, conv, NoMessage, text) : e.to # s}

\* The body of the typing and stop-typing listeners; the event carries the
\* sender's userId.  Reading data.conversationId of undefined throws.
TypingListener(s, data, ev, op) ==
    /\ Idle
    /\ s \in connected
    /\ IF data.type = "undefined"
       THEN Crash(s)
       ELSE /\ out' = BroadcastEmit(s, ConversationRoom(data.conversationId),
                                    ev, data.conversationId, socketUser[s])
            /\ last' = Step(op, s, data.conversationId, TRUE, 0)
            /\ UNCHANGED <<conversations, messages, socketUser, connected,
                           rooms, activeUsers, tasks>>

\* socket.on('typing')
Typing(s, data) == TypingListener(s, data, "user-typing", "typing")

\* socket.on('stop-typing')
StopTyping(s, data) ==
    TypingListener(s, data, "user-stopped-typing", "stop-typing")

\* Array.from(activeUsers.keys())
OnlineUsers == {u \in Users : activeUsers[u] # 0}

\* GET /online
GetOnline ==
    /\ Idle
    /\ out' = {[ev |-> "http", to |-> 0, conv |-> 0, msg |-> NoMessage,
                text |-> "200", onlineUsers |-> OnlineUsers]}
    /\ last' = Step("online", 0, 0, TRUE, 0)
    /\ UNCHANGED <<conversations, messages, socketUser, connected, rooms,
                   activeUsers, tasks>>

\* ------------------------------------------------------------ mark-read
\* Ids a client can name in a mark-read payload: those of rows that exist,
\* and those of rows that do not exist (yet).
MessageIds == 1..MaxMessages

\* The argument of a mark-read event: an object with a messageId, or nothing.
MarkPayload(messageId) == [type |-> "object", messageId |-> messageId]
MarkPayloads == {NoPayload} \cup {MarkPayload(m) : m \in MessageIds}

\* The catch block of mark-read: console.error and nothing else.
MarkCatch(i) ==
    /\ out' = {}
    /\ tasks' = Remove(tasks, i)

\* socket.on('mark-read'): up to the await of message.update.  Destructuring
\* an undefined payload throws inside the try block.
MarkRead(s, data) ==
    /\ Idle
    /\ s \in connected
    /\ IF data.type = "undefined"
       THEN /\ out' = {}
            /\ tasks' = tasks
            /\ last' = Step("mark", s, 0, FALSE, 0)
       ELSE /\ Len(tasks) < MaxTasks
            /\ tasks' = Append(tasks,
                  Task("mark", "update", s, socketUser[s], 0, "", Undefined,
                       NoConversation, [NoMessage EXCEPT !.id = data.messageId]))
            /\ out' = {}
            /\ last' = Step("mark", s, 0, TRUE, data.messageId)
    /\ UNCHANGED <<conversations, messages, socketUser, connected,
                   rooms, activeUsers>>

\* Mutant of MarkRows: the where clause without receiverId.
MarkRowsAnyUser(messageId, userId) == {m \in messages : m.id = messageId}

\* The row message.update of mark-read selects:
\* where {id: messageId, receiverId: socket.userId}
MarkRows(messageId, userId) ==
    {m \in messages : m.id = messageId /\ m.receiverId = userId}

\* Mutant of SetRead: the flag is flipped.
ToggleRead(m) == [m EXCEPT !.isRead = ~@]

\* data: {isRead: true}
SetRead(m) == [m EXCEPT !.isRead = TRUE]

\* mark-read: message.update settles (it rejects when no row matches); the
\* handler runs to the await of message.findUnique.
MarkUpdate(i) ==
    /\ Idle
    /\ Resumable(i)
    /\ tasks[i].kind = "mark"
    /\ tasks[i].pc = "update"
    /\ LET t == tasks[i]
           rows == MarkRows(t.msg.id, t.user)
       IN \E ok \in BOOLEAN :
          /\ IF ~ok \/ rows = {}
             THEN /\ MarkCatch(i)
                  /\ messages' = messages
             ELSE /\ messages' = (messages \ rows) \cup {SetRead(m) : m \in rows}
                  /\ out' = {}
                  /\ tasks' = [tasks EXCEPT ![i].pc = "find"]
          /\ last' = Step("mark.update", t.sock, 0, ok, t.msg.id)
    /\ UNCHANGED <<conversations, socketUser, connected, rooms, activeUsers>>

\* Mutant of MessageReadEmit: the event goes to the reader's own channel.
MessageReadEmitToReader(t, message) ==
    RoomEmit(UserRoom(t.user), "message-read", 0,
             [NoMessage EXCEPT !.id = t.msg.id], t.user)

\* io.to(`user:${message.senderId}`).emit('message-read',
\*                                        {messageId, readBy: socket.userId})
\* The event's msg holds messageId and its text holds readBy.
MessageReadEmit(t, message) ==
    RoomEmit(UserRoom(message.senderId), "message-read", 0,
             [NoMessage EXCEPT !.id = t.msg.id], t.user)

\* mark-read: message.findUnique settles; the handler runs to its end.
MarkFind(i) ==
    /\ Idle
    /\ Resumable(i)
    /\ tasks[i].kind = "mark"
    /\ tasks[i].pc = "find"
    /\ LET t == tasks[i]
           rows == {m \in messages : m.id = t.msg.id}
       IN \E ok \in BOOLEAN :
          /\ IF ~ok
             THEN MarkCatch(i)
             ELSE /\ out' = IF rows = {} THEN {}
                            ELSE MessageReadEmit(t, CHOOSE m \in rows : TRUE)
                  /\ tasks' = Remove(tasks, i)
          /\ last' = Step("mark.find", t.sock, 0, ok, t.msg.id)
    /\ UNCHANGED <<conversations, messages, socketUser, connected, rooms,
                   activeUsers>>

\* ------------------------------ GET /messages/conversation/:conversationId
\* The handler suspended on an await: the requester, the conversation asked
\* for, the conversation found and the messages read.
GetTask(pc, user, conv, found, rows) ==
    [kind |-> "get", pc |-> pc, sock |-> 0, user |-> user, conv |-> conv,
     found |-> found, rows |-> rows]

\* The response with the messages read.
MessagesResponse(status, conversationId, rows) ==
    {[ev |-> "http", to |-> 0, conv |-> conversationId, msg |-> NoMessage,
      text |-> status, messages |-> rows]}

\* GET /messages/conversation/:conversationId by user u: up to the await of
\* conversation.findFirst.
GetMessages(u, conversationId) ==
    /\ Idle
    /\ Len(tasks) < MaxTasks
    /\ tasks' = Append(tasks, GetTask("find", u, conversationId,
                                      NoConversation, {}))
    /\ out' = {}
    /\ last' = Step("get", 0, conversationId, TRUE, 0)
    /\ UNCHANGED <<conversations, messages, socketUser, connected,
                   rooms, activeUsers>>

\* The catch block of GET /messages/conversation/:conversationId.
GetCatch(i) ==
    /\ out' = MessagesResponse("500", tasks[i].conv, {})
    /\ tasks' = Remove(tasks, i)

\* findFirst settles; the handler runs to the await of message.findMany.
GetFind(i) ==
    /\ Idle
    /\ Resumable(i)
    /\ tasks[i].kind = "get"
    /\ tasks[i].pc = "find"
    /\ LET t == tasks[i]
           conversation == FindFirst({c \in conversations :
                              /\ c.id = t.conv
                              /\ (c.user1Id = t.user \/ c.user2Id = t.user)})
       IN \E ok \in BOOLEAN :
          /\ IF ~ok
             THEN GetCatch(i)
             ELSE IF conversation = NoConversation
             THEN /\ out' = MessagesResponse("404", t.conv, {})
                  /\ tasks' = Remove(tasks, i)
             ELSE /\ out' = {}
                  /\ tasks' = [tasks EXCEPT ![i].pc = "findMany",
                                            ![i].found = conversation]
          /\ last' = Step("get.find", 0, t.conv, ok, 0)
    /\ UNCHANGED <<conversations, messages, socketUser, connected,
                   rooms, activeUsers>>

\* The messages of a conversation: those between its two participants about
\* its product.
ConversationMessages(conversation) ==
    {m \in messages :
        /\ m.productId = conversation.productId
        /\ \/ /\ m.senderId = conversation.user1Id
              /\ m.receiverId = conversation.user2Id
           \/ /\ m.senderId = conversation.user2Id
              /\ m.receiverId = conversation.user1Id}

\* message.findMany settles; the handler runs to the await of updateMany.
GetFindMany(i) ==
    /\ Idle
    /\ Resumable(i)
    /\ tasks[i].kind = "get"
    /\ tasks[i].pc = "findMany"
    /\ LET t == tasks[i] IN
       \E ok \in BOOLEAN :
          /\ IF ~ok
             THEN GetCatch(i)
             ELSE /\ out' = {}
                  /\ tasks' = [tasks EXCEPT
                                 ![i].pc = "updateMany",
                                 ![i].rows = ConversationMessages(t.found)]
          /\ last' = Step("get.findMany", 0, t.conv, ok, 0)
    /\ UNCHANGED <<conversations, messages, socketUser, connected,
                   rooms, activeUsers>>

\* The rows updateMany selects:
\* where {receiverId: req.userId, productId: conversation.productId,
\*        isRead: false}
UnreadRows(userId, productId) ==
    {m \in messages :
        m.receiverId = userId /\ m.productId = productId /\ ~m.isRead}

\* message.updateMany settles; the handler runs to its end.
GetUpdateMany(i) ==
    /\ Idle
    /\ Resumable(i)
    /\ tasks[i].kind = "get"
    /\ tasks[i].pc = "updateMany"
    /\ LET t == tasks[i]
           rows == UnreadRows(t.user, t.found.productId)
       IN \E ok \in BOOLEAN :
          /\ IF ~ok
             THEN /\ GetCatch(i)
                  /\ messages' = messages
             ELSE /\ messages' = (messages \ rows) \cup {SetRead(m) : m \in rows}
                  /\ out' = MessagesResponse("200", t.conv, t.rows)
                  /\ tasks' = Remove(tasks, i)
          /\ last' = Step("get.updateMany", 0, t.conv, ok, 0)
    /\ UNCHANGED <<conversations, socketUser, connected, rooms, activeUsers>>

\* ------------------------------------------------------ authenticateSocket
\* socket.handshake.auth.token: absent, not a JWT, a JWT past its expiry, or
\* a JWT signed for userId and not expired; denylisted says whether the key
\* blacklist:<token> is in Redis (the auth service writes it at logout, this
\* service only reads it).
Token(kind, userId, denylisted) ==
    [kind |-> kind, userId |-> userId, denylisted |-> denylisted]

\* A user id that is in no row of the users table.
DeletedUser == "Z"

Tokens ==
    { Token("missing", "", FALSE), Token("malformed", "", FALSE),
      Token("expired", "A", FALSE), Token("signed", "A", FALSE),
      Token("signed", "B", TRUE), Token("signed", DeletedUser, FALSE) }

\* The handshake suspended on an await.
HandshakeTask(pc, token) ==
    [kind |-> "auth", pc |-> pc, sock |-> 0, token |-> token]

\* next(new Error(message)): the client gets connect_error with the message.
Refuse(message) == {Event("connect_error", 0, 0, NoMessage, message)}

\* redisUtils.exists(key): client.exists, or false when the call fails.
RedisExists(token, ok) == IF ok THEN token.denylisted ELSE FALSE

\* authenticateSocket: up to the await of redisUtils.exists.
AuthenticateSocket(token) ==
    /\ Idle
    /\ IF token.kind = "missing"
       THEN /\ out' = Refuse("Authentication error")
            /\ tasks' = tasks
       ELSE /\ Len(tasks) < MaxTasks
            /\ out' = {}
            /\ tasks' = Append(tasks, HandshakeTask("exists", token))
    /\ last' = Step("auth", 0, 0, token.kind # "missing", 0)
    /\ UNCHANGED <<conversations, messages, socketUser, connected,
                   rooms, activeUsers>>

\* redisUtils.exists settles (ok: Redis answered); jwt.verify runs; the
\* handshake goes on to the await of user.findUnique.
AuthExists(i) ==
    /\ Idle
    /\ Resumable(i)
    /\ tasks[i].kind = "auth"
    /\ tasks[i].pc = "exists"
    /\ LET t == tasks[i] IN
       \E ok \in BOOLEAN :
          /\ IF RedisExists(t.token, ok)
             THEN /\ out' = Refuse("Token is invalid")
                  /\ tasks' = Remove(tasks, i)
             ELSE IF t.token.kind # "signed"
             THEN /\ out' = Refuse("Authentication error")
                  /\ tasks' = Remove(tasks, i)
             ELSE /\ out' = {}
                  /\ tasks' = [tasks EXCEPT ![i].pc = "user"]
          /\ last' = Step("auth.exists", 0, 0, ok, 0)
    /\ UNCHANGED <<conversations, messages, socketUser, connected,
                   rooms, activeUsers>>

\* user.findUnique settles; the handshake ends: the connection is refused,
\* or accepted and the connection listener runs.
AuthUser(i) ==
    /\ Idle
    /\ Resumable(i)
    /\ tasks[i].kind = "auth"
    /\ tasks[i].pc = "user"
    /\ LET t == tasks[i] IN
       \E ok \in BOOLEAN :
          /\ IF ~ok
             THEN /\ out' = Refuse("Authentication error")
                  /\ UNCHANGED <<socketUser, connected, rooms, activeUsers>>
             ELSE IF t.token.userId \notin Users
             THEN /\ out' = Refuse("User not found")
                  /\ UNCHANGED <<socketUser, connected, rooms, activeUsers>>
             ELSE /\ Len(socketUser) < MaxSockets
                  /\ ConnectionListener(t.token.userId)
                  /\ out' = {}
          /\ last' = Step("auth.user", 0, 0, ok, 0)
    /\ tasks' = Remove(tasks, i)
    /\ UNCHANGED <<conversations, messages>>

\* ------------------------------------------------ GET /messages/conversations
\* The handler suspended on an await: the requester, the conversations found,
\* and for each of them (by id) the last message and the unread count read
\* so far; Pending marks a query that has not settled.
Pending == [id |-> -1]

ListTask(pc, user, rows, lastMessage, unreadCount) ==
    [kind |-> "list", pc |-> pc, sock |-> 0, user |-> user, rows |-> rows,
     lastMessage |-> lastMessage, unreadCount |-> unreadCount]

\* The response with the conversations and their unread counts.
ConversationsResponse(status, rows) ==
    {[ev |-> "http", to |-> 0, conv |-> 0, msg |-> NoMessage,
      text |-> status, conversations |-> rows]}

\* GET /messages/conversations by user u: up to the await of
\* conversation.findMany.
GetConversations(u) ==
    /\ Idle
    /\ Len(tasks) < MaxTasks
    /\ tasks' = Append(tasks, ListTask("findMany", u, {}, <<>>, <<>>))
    /\ out' = {}
    /\ last' = Step("list", 0, 0, TRUE, 0)
    /\ UNCHANGED <<conversations, messages, socketUser, connected,
                   rooms, activeUsers>>

\* The catch block of GET /messages/conversations.
ListCatch(i) ==
    /\ out' = ConversationsResponse("500", {})
    /\ tasks' = Remove(tasks, i)

\* conversation.findMany settles; conversations.map starts one async
\* function per conversation, each up to its await of message.findFirst.
ListFindMany(i) ==
    /\ Idle
    /\ Resumable(i)
    /\ tasks[i].kind = "list"
    /\ tasks[i].pc = "findMany"
    /\ LET t == tasks[i]
           rows == {c \in conversations :
                      c.user1Id = t.user \/ c.user2Id = t.user}
           ids == {c.id : c \in rows}
       IN \E ok \in BOOLEAN :
          /\ IF ~ok
             THEN ListCatch(i)
             ELSE /\ out' = {}
                  /\ tasks' = [tasks EXCEPT ![i] =
                        ListTask("each", t.user, rows,
                                 [c \in ids |-> Pending],
                                 [c \in ids |-> -1])]
          /\ last' = Step("list.findMany", 0, 0, ok, 0)
    /\ UNCHANGED <<conversations, messages, socketUser, connected,
                   rooms, activeUsers>>

\* The newest of a set of messages (ids grow with createdAt), or null.
Newest(rows) ==
    IF rows = {} THEN NoMessage
    ELSE CHOOSE m \in rows : \A n \in rows : n.id <= m.id

\* message.findFirst of one conversation settles; its function runs to the
\* await of message.count.
ListLastMessage(i, c) ==
    /\ Idle
    /\ Resumable(i)
    /\ tasks[i].kind = "list"
    /\ tasks[i].pc = "each"
    /\ c \in tasks[i].rows
    /\ tasks[i].lastMessage[c.id] = Pending
    /\ \E ok \in BOOLEAN :
          /\ IF ~ok
             THEN ListCatch(i)
             ELSE /\ out' = {}
                  /\ tasks' = [tasks EXCEPT ![i].lastMessage[c.id] =
                                  Newest(ConversationMessages(c))]
          /\ last' = Step("list.lastMessage", 0, c.id, ok, 0)
    /\ UNCHANGED <<conversations, messages, socketUser, connected,
                   rooms, activeUsers>>

\* message.count({where: {receiverId: req.userId,
\*                        productId: conversation.productId, isRead: false}})
UnreadCount(userId, conversation) ==
    Cardinality(UnreadRows(userId, conversation.productId))

\* message.count of one conversation settles; its function returns.
ListCount(i, c) ==
    /\ Idle
    /\ Resumable(i)
    /\ tasks[i].kind = "list"
    /\ tasks[i].pc = "each"
    /\ c \in tasks[i].rows
    /\ tasks[i].lastMessage[c.id] # Pending
    /\ tasks[i].unreadCount[c.id] = -1
    /\ \E ok \in BOOLEAN :
          /\ IF ~ok
             THEN ListCatch(i)
             ELSE /\ out' = {}
                  /\ tasks' = [tasks EXCEPT ![i].unreadCount[c.id] =
                                  UnreadCount(tasks[i].user, c)]
          /\ last' = Step("list.count", 0, c.id, ok, 0)
    /\ UNCHANGED <<conversations, messages, socketUser, connected,
                   rooms, activeUsers>>

\* Promise.all has resolved; the handler answers.
ListRespond(i) ==
    /\ Idle
    /\ Resumable(i)
    /\ tasks[i].kind = "list"
    /\ tasks[i].pc = "each"
    /\ \A c \in tasks[i].rows : tasks[i].unreadCount[c.id] # -1
    /\ out' = ConversationsResponse("200",
                 {[id |-> c.id,
                   lastMessage |-> tasks[i].lastMessage[c.id],
                   unreadCount |-> tasks[i].unreadCount[c.id]] :
                     c \in tasks[i].rows})
    /\ tasks' = Remove(tasks, i)
    /\ last' = Step("list.respond", 0, 0, TRUE, 0)
    /\ UNCHANGED <<conversations, messages, socketUser, connected,
                   rooms, activeUsers>>

\* The event loop returns from the step: its events have been written to
\* the connections.
EndStep ==
    /\ ~Idle
    /\ last.op # "crash"
    /\ out' = {}
    /\ last' = Step("idle", 0, 0, TRUE, 0)
    /\ UNCHANGED <<conversations, messages, socketUser, connected, rooms,
                   activeUsers, tasks>>

\* --------------------------------------------------------- specification
Conversation(id, user1Id, user2Id, productId) ==
    [id |-> id, user1Id |-> user1Id, user2Id |-> user2Id,
     productId |-> productId, lastMessageAt |-> 0]

\* The conversations table when the service starts: tables that
\* POST /messages/conversation builds (see SpecRest).
ConversationTables == { {}, {Conversation(1, "A", "B", "p1")} }

ServiceInit ==
    /\ messages = {}
    /\ socketUser = <<>>
    /\ connected = {}
    /\ rooms = <<>>
    /\ activeUsers = [u \in Users |-> 0]
    /\ tasks = <<>>
    /\ out = {}
    /\ last = Step("idle", 0, 0, TRUE, 0)

Init ==
    /\ conversations \in ConversationTables
    /\ ServiceInit

\* The real-time channel.
Next ==
    \/ \E u \in Users : Connect(u)
    \/ \E s \in SocketIds : Disconnect(s)
    \/ \E s \in SocketIds, c \in ConversationIds : JoinConversation(s, c)
    \/ \E i \in 1..MaxTasks : JoinFind(i)
    \/ \E s \in SocketIds, c \in ConversationIds : LeaveConversation(s, c)
    \/ \E s \in SocketIds, c \in ConversationIds, content \in Contents,
          p \in ClientProductIds : SendMessage(s, c, content, p)
    \/ \E i \in 1..MaxTasks : SendFind(i)
    \/ \E i \in 1..MaxTasks : SendCreate(i)
    \/ \E i \in 1..MaxTasks : SendUpdate(i)
    \/ EndStep

Spec == Init /\ [][Next]_vars

\* The REST endpoint that creates conversations, from an empty table.
InitRest ==
    /\ conversations = {}
    /\ ServiceInit

NextRest ==
    \/ \E u \in Users, p \in ProductInputs, r \in Users :
          PostConversation(u, p, r)
    \/ \E i \in 1..MaxTasks : PostProduct(i)
    \/ \E i \in 1..MaxTasks : PostFind(i)
    \/ \E i \in 1..MaxTasks : PostCreate(i)
    \/ EndStep

SpecRest == InitRest /\ [][NextRest]_vars

\* The content of the messages sent while read flags are followed.
ReadContents == {Str(<<"h", "i">>)}

\* Read flags: the messages of one conversation are sent, marked read over
\* the socket and read over REST.
InitRead ==
    /\ conversations = {Conversation(1, "A", "B", "p1")}
    /\ ServiceInit

NextRead ==
    \/ \E u \in Users : Connect(u)
    \/ \E s \in SocketIds, c \in ConversationIds, content \in ReadContents,
          p \in ClientProductIds : SendMessage(s, c, content, p)
    \/ \E i \in 1..MaxTasks : SendFind(i)
    \/ \E i \in 1..MaxTasks : SendCreate(i)
    \/ \E i \in 1..MaxTasks : SendUpdate(i)
    \/ \E s \in SocketIds, data \in MarkPayloads : MarkRead(s, data)
    \/ \E i \in 1..MaxTasks : MarkUpdate(i)
    \/ \E i \in 1..MaxTasks : MarkFind(i)
    \/ \E u \in Users, c \in ConversationIds : GetMessages(u, c)
    \/ \E i \in 1..MaxTasks : GetFind(i)
    \/ \E i \in 1..MaxTasks : GetFindMany(i)
    \/ \E i \in 1..MaxTasks : GetUpdateMany(i)
    \/ EndStep

SpecRead == InitRead /\ [][NextRead]_vars

\* The handshake: connection attempts with every kind of credential.
NextAuth ==
    \/ \E token \in Tokens : AuthenticateSocket(token)
    \/ \E i \in 1..MaxTasks : AuthExists(i)
    \/ \E i \in 1..MaxTasks : AuthUser(i)
    \/ \E s \in SocketIds : Disconnect(s)
    \/ GetOnline
    \/ EndStep

SpecAuth == Init /\ [][NextAuth]_vars

\* The inbox of a seller: B and C have each started a conversation with A
\* about A's product (POST /messages/conversation), and each has sent A a
\* message in it or not yet (send-message).
InboxConversations ==
    {Conversation(1, "B", "A", "p1"), Conversation(2, "C", "A", "p1")}

InboxMessage(id, senderId) ==
    [id |-> id, senderId |-> senderId, receiverId |-> "A", productId |-> "p1",
     content |-> <<"h", "i">>, isRead |-> FALSE]

InboxTables ==
    { {}, {InboxMessage(1, "B")}, {InboxMessage(1, "C")},
      {InboxMessage(1, "B"), InboxMessage(2, "C")} }

InitInbox ==
    /\ conversations = InboxConversations
    /\ messages \in InboxTables
    /\ socketUser = <<>>
    /\ connected = {}
    /\ rooms = <<>>
    /\ activeUsers = [u \in Users |-> 0]
    /\ tasks = <<>>
    /\ out = {}
    /\ last = Step("idle", 0, 0, TRUE, 0)

NextInbox ==
    \/ \E u \in Users, c \in InboxConversations : GetMessages(u, c.id)
    \/ \E i \in 1..MaxTasks : GetFind(i)
    \/ \E i \in 1..MaxTasks : GetFindMany(i)
    \/ \E i \in 1..MaxTasks : GetUpdateMany(i)
    \/ \E u \in Users : GetConversations(u)
    \/ \E i \in 1..MaxTasks : ListFindMany(i)
    \/ \E i \in 1..MaxTasks, c \in InboxConversations : ListLastMessage(i, c)
    \/ \E i \in 1..MaxTasks, c \in InboxConversations : ListCount(i, c)
    \/ \E i \in 1..MaxTasks : ListRespond(i)
    \/ EndStep

SpecInbox == InitInbox /\ [][NextInbox]_vars

\* One client script on one conversation: a message "a" is sent, then a
\* message "b", and sends with empty content at any time.  A send of "a" is
\* issued only while neither is in flight or stored, a send of "b" only
\* after "a" has been issued: whenever both are there, "a" was issued first.
FirstContent == Str(<<"a">>)
SecondContent == Str(<<"b">>)

Issued(content) ==
    \/ \E i \in 1..Len(tasks) :
          tasks[i].kind = "send" /\ tasks[i].content = content
    \/ \E m \in messages : m.content = Trim(content.chars)

SendFirst(s, c, p) ==
    /\ ~Issued(FirstContent)
    /\ ~Issued(SecondContent)
    /\ SendMessage(s, c, FirstContent, p)

SendSecond(s, c, p) ==
    /\ Issued(FirstContent)
    /\ ~Issued(SecondContent)
    /\ SendMessage(s, c, SecondContent, p)

SendBlank(s, c, p) == SendMessage(s, c, Str(<<>>), p)

InitSend ==
    /\ conversations = {Conversation(1, "A", "B", "p1")}
    /\ ServiceInit

NextSend ==
    \/ \E u \in Users : Connect(u)
    \/ \E s \in SocketIds : Disconnect(s)
    \/ \E s \in SocketIds, c \in ConversationIds : JoinConversation(s, c)
    \/ \E i \in 1..MaxTasks : JoinFind(i)
    \/ \E s \in SocketIds, c \in ConversationIds, p \in ClientProductIds :
          SendFirst(s, c, p)
    \/ \E s \in SocketIds, c \in ConversationIds, p \in ClientProductIds :
          SendSecond(s, c, p)
    \/ \E s \in SocketIds, c \in ConversationIds, p \in ClientProductIds :
          SendBlank(s, c, p)
    \/ \E i \in 1..MaxTasks : SendFind(i)
    \/ \E i \in 1..MaxTasks : SendCreate(i)
    \/ \E i \in 1..MaxTasks : SendUpdate(i)
    \/ EndStep

\* Every query of a send-message handler eventually returns or fails, and
\* the event loop then runs the handler's continuation.  Fairness is strong
\* because a continuation is runnable only between the steps of the others.
SendFairness ==
    /\ WF_vars(EndStep)
    /\ \A i \in 1..MaxTasks :
          SF_vars(SendFind(i) \/ SendCreate(i) \/ SendUpdate(i))

SpecSend == InitSend /\ [][NextSend]_vars /\ SendFairness

\* Presence: connections, rooms, typing indicators and the online list.
NextPresence ==
    \/ \E u \in Users : Connect(u)
    \/ \E s \in SocketIds : Disconnect(s)
    \/ \E s \in SocketIds, c \in ConversationIds : JoinConversation(s, c)
    \/ \E i \in 1..MaxTasks : JoinFind(i)
    \/ \E s \in SocketIds, c \in ConversationIds : LeaveConversation(s, c)
    \/ \E s \in SocketIds, data \in TypingPayloads : Typing(s, data)
    \/ \E s \in SocketIds, data \in TypingPayloads : StopTyping(s, data)
    \/ GetOnline
    \/ EndStep

SpecPresence == Init /\ [][NextPresence]_vars

\* ------------------------------------------------------------- properties
\* The two participants of the conversation with this id; empty when there is
\* no such conversation.
Participants(conversationId) ==
    UNION {{c.user1Id, c.user2Id} : c \in {x \in conversations : x.id = conversationId}}

\* Content that is missing, empty or made of spaces only.
Blank(content) ==
    \/ content.type = "undefined"
    \/ /\ content.type = "string"
       /\ \A k \in 1..Len(content.chars) : content.chars[k] = " "

ErrorEvent(s, text) == Event("error", s, 0, NoMessage, text)

\* C1: when the lookup of a join-conversation(C) from connection s settles,
\* s enters a room or gets joined-conversation only if its user is a
\* participant of C; otherwise (not a participant, no such conversation, the
\* lookup failed) no socket's rooms change and s, while connected, gets an
\* error event; nothing is sent to any other connection.
C1_JoinOnlyByParticipants ==
    [][\A i \in 1..MaxTasks :
         JoinFind(i) =>
            LET t == tasks[i]
                s == t.sock
                participant == socketUser[s] \in Participants(t.conv)
                joined == \E e \in out' : e.ev = "joined-conversation"
            IN /\ \A e \in out' : e.to = s
               /\ (joined \/ rooms' # rooms) =>
                     /\ participant
                     /\ rooms' = [rooms EXCEPT
                                    ![s] = @ \cup {ConversationRoom(t.conv)}]
               /\ ~(participant /\ last'.ok) =>
                     /\ rooms' = rooms
                     /\ ~joined
                     /\ s \in connected =>
                           \E e \in out' : e.ev = "error" /\ e.to = s
      ]_vars

\* C1 witness: a connected user who is not a participant of an existing
\* conversation asked to join it and got the error.
C1_Witness ==
    /\ last.op = "join.find"
    /\ last.ok
    /\ Participants(last.conv) # {}
    /\ socketUser[last.sock] \notin Participants(last.conv)
    /\ out = {ErrorEvent(last.sock, "Not authorized to join this conversation")}
    /\ ConversationRoom(last.conv) \notin rooms[last.sock]

\* C2: a new-message event for conversation C is delivered only to
\* connections whose user is one of C's two participants.
C2_NewMessageOnlyToParticipants ==
    \A e \in out :
        e.ev = "new-message" => socketUser[e.to] \in Participants(e.conv)

\* C2 witness: a new-message is delivered while a non-participant is
\* connected.
C2_Witness ==
    \E e \in out :
        /\ e.ev = "new-message"
        /\ \E s \in connected : socketUser[s] \notin Participants(e.conv)

\* C3: a send-message whose content is missing, empty or whitespace-only gets
\* the sender an error event and nothing else happens: no message row, no
\* change to a conversation, no other event, no handler left running.
C3_BlankContentRejected ==
    [][\A s \in SocketIds, c \in ConversationIds, content \in Contents,
          p \in ClientProductIds :
         (Blank(content) /\ SendMessage(s, c, content, p)) =>
            /\ out' = {ErrorEvent(s, "Message content cannot be empty")}
            /\ messages' = messages
            /\ conversations' = conversations
            /\ tasks' = tasks
      ]_vars

\* C3 witness: a send-message was rejected for its content.
C3_Witness ==
    /\ last.op = "send"
    /\ ~last.ok
    /\ out = {ErrorEvent(last.sock, "Message content cannot be empty")}

\* C4: when the lookup of a send-message settles and the sender is not a
\* participant of the named conversation (or there is no such conversation),
\* the handler ends: no message row, no change to a conversation, and the
\* only events are error events to the sender, at least one while the sender
\* is connected.
C4_SendOutsideConversationRejected ==
    [][\A i \in 1..MaxTasks :
         (SendFind(i) /\ tasks[i].user \notin Participants(tasks[i].conv)) =>
            /\ messages' = messages
            /\ conversations' = conversations
            /\ tasks' = Remove(tasks, i)
            /\ \A e \in out' : e.ev = "error" /\ e.to = tasks[i].sock
            /\ tasks[i].sock \in connected => out' # {}
      ]_vars

\* C4 witness: a connected user who is not a participant of an existing
\* conversation sent a message to it and got the error.
C4_Witness ==
    /\ last.op = "send.find"
    /\ last.ok
    /\ Participants(last.conv) # {}
    /\ socketUser[last.sock] \notin Participants(last.conv)
    /\ out = {ErrorEvent(last.sock, "Conversation not found")}

\* C5: the message row a send-message on conversation C creates has the
\* sending connection's user as sender and C's other participant as
\* receiver: the two differ and are C's two participants.
C5_ReceiverIsOtherParticipant ==
    (last.op = "send.create" /\ last.ok) =>
        \E m \in messages, c \in conversations :
            /\ m.id = last.msg
            /\ c.id = last.conv
            /\ m.senderId = socketUser[last.sock]
            /\ m.receiverId # m.senderId
            /\ {m.senderId, m.receiverId} = {c.user1Id, c.user2Id}

\* C5 witness: the conversation's second participant sent a message, with a
\* productId that is not the conversation's, and the first one is its
\* receiver.
C5_Witness ==
    /\ last.op = "send.create"
    /\ last.ok
    /\ \E m \in messages, c \in conversations, i \in 1..Len(tasks) :
          /\ m.id = last.msg
          /\ c.id = last.conv
          /\ tasks[i].msg = m
          /\ tasks[i].pid # c.productId
          /\ m.senderId = c.user2Id
          /\ m.receiverId = c.user1Id

\* C6: the message row a send-message on conversation C creates carries C's
\* product id, whatever productId the payload held, and is unread.
C6_ProductFromConversation ==
    (last.op = "send.create" /\ last.ok) =>
        \E m \in messages, c \in conversations :
            /\ m.id = last.msg
            /\ c.id = last.conv
            /\ m.productId = c.productId
            /\ m.isRead = FALSE

\* C6 witness: a message was created by a send-message whose payload named
\* another product than the one stored.
C6_Witness ==
    /\ last.op = "send.create"
    /\ last.ok
    /\ \E m \in messages, i \in 1..Len(tasks) :
          /\ m.id = last.msg
          /\ tasks[i].msg = m
          /\ tasks[i].pid # m.productId
          /\ ~m.isRead

\* C7: when message.create of a send-message fails, the handler ends with an
\* error event to the sender (while connected) and no other event, and no
\* row is added; and every new-message or message-notification event carries
\* a message that is in the messages table.
C7_CreateFailureIsAnError ==
    [][/\ \A i \in 1..MaxTasks :
            (SendCreate(i) /\ ~last'.ok) =>
               /\ out' = IF tasks[i].sock \in connected
                         THEN {ErrorEvent(tasks[i].sock, "Failed to send message")}
                         ELSE {}
               /\ messages' = messages
               /\ tasks' = Remove(tasks, i)
       /\ \A e \in out' :
            e.ev \in {"new-message", "message-notification"} =>
               \E m \in messages' : [m EXCEPT !.isRead = FALSE] = e.msg
      ]_vars

\* C7 witness: message.create failed for a connected sender, who got the
\* error.
C7_Witness ==
    /\ last.op = "send.create"
    /\ ~last.ok
    /\ out = {ErrorEvent(last.sock, "Failed to send message")}

\* C8 (as claimed): when conversation.update fails after message.create
\* succeeded, the message exists and the new-message broadcast and the
\* receiver's notification are still emitted.
C8_UpdateFailureStillBroadcasts ==
    (last.op = "send.update" /\ ~last.ok) =>
        \E m \in messages :
            /\ m.id = last.msg
            /\ \A s \in connected :
                  ConversationRoom(last.conv) \in rooms[s] =>
                     \E e \in out : /\ e.ev = "new-message"
                                    /\ e.to = s
                                    /\ e.msg.id = m.id
            /\ \A s \in connected :
                  socketUser[s] = m.receiverId =>
                     \E e \in out : /\ e.ev = "message-notification"
                                    /\ e.to = s
                                    /\ e.msg.id = m.id

\* C9: when a send-message on conversation C succeeds, every connection that
\* is in C's room at that moment gets new-message with the created message
\* row, the sender's connection included when it is in the room.
C9_BroadcastToWholeRoom ==
    (last.op = "send.update" /\ last.ok) =>
        \A s \in connected :
            ConversationRoom(last.conv) \in rooms[s] =>
               \E e \in out :
                  /\ e.ev = "new-message"
                  /\ e.to = s
                  /\ e.conv = last.conv
                  /\ e.msg.id = last.msg
                  /\ \E m \in messages : [m EXCEPT !.isRead = FALSE] = e.msg

\* C9 witness: the sender and another connection are in the room and both
\* got the new-message.
C9_Witness ==
    /\ last.op = "send.update"
    /\ last.ok
    /\ \E e1, e2 \in out :
          /\ e1.ev = "new-message" /\ e1.to = last.sock
          /\ e2.ev = "new-message" /\ e2.to # last.sock
          /\ e1.msg.id = last.msg /\ e2.msg.id = last.msg

\* C10: when a send-message succeeds, every live connection of the message's
\* receiver gets message-notification for it, in the conversation's room or
\* not.
C10_NotificationToReceiver ==
    (last.op = "send.update" /\ last.ok) =>
        \E m \in messages :
            /\ m.id = last.msg
            /\ \A s \in connected :
                  socketUser[s] = m.receiverId =>
                     \E e \in out : /\ e.ev = "message-notification"
                                    /\ e.to = s
                                    /\ e.conv = last.conv
                                    /\ e.msg.id = m.id

\* C10 witness: a connection of the receiver that is not in the
\* conversation's room got the notification.
C10_Witness ==
    /\ last.op = "send.update"
    /\ last.ok
    /\ \E m \in messages, s \in connected :
          /\ m.id = last.msg
          /\ socketUser[s] = m.receiverId
          /\ ConversationRoom(last.conv) \notin rooms[s]
          /\ \E e \in out : /\ e.ev = "message-notification"
                            /\ e.to = s
                            /\ e.msg.id = m.id

\* The typing events a step delivered to connection r for conversation c.
TypingEvents(ev, r, c) == {e \in out : e.ev = ev /\ e.to = r /\ e.conv = c}

\* C14: a typing (stop-typing) event from connection s naming conversation
\* C delivers user-typing (user-stopped-typing), carrying s's user, to every
\* live connection in C's room other than s and to nobody else, never to s,
\* and changes no row of the messages or conversations table.
C14_TypingToOthersOnly ==
    [][\A s \in SocketIds, c \in ConversationIds :
         /\ Typing(s, Payload(c)) =>
               /\ \A r \in connected :
                     (r # s /\ ConversationRoom(c) \in rooms[r])
                        <=> (\E e \in out' : e.to = r)
               /\ \A e \in out' :
                     /\ e.ev = "user-typing"
                     /\ e.conv = c
                     /\ e.text = socketUser[s]
                     /\ e.to # s
               /\ messages' = messages
               /\ conversations' = conversations
         /\ StopTyping(s, Payload(c)) =>
               /\ \A r \in connected :
                     (r # s /\ ConversationRoom(c) \in rooms[r])
                        <=> (\E e \in out' : e.to = r)
               /\ \A e \in out' :
                     /\ e.ev = "user-stopped-typing"
                     /\ e.conv = c
                     /\ e.text = socketUser[s]
                     /\ e.to # s
               /\ messages' = messages
               /\ conversations' = conversations
      ]_vars

\* C14 witness: a connection that is in the room typed; the other connection
\* in the room got user-typing and the typing one got nothing.
C14_Witness ==
    /\ last.op = "typing"
    /\ ConversationRoom(last.conv) \in rooms[last.sock]
    /\ \E r \in connected :
          /\ r # last.sock
          /\ TypingEvents("user-typing", r, last.conv) # {}
    /\ \A e \in out : e.to # last.sock

\* C15: leave-conversation(C) from a connection that is not in C's room
\* delivers no error event and changes no room, no registry entry, no
\* connection and no row; and leaving twice gives the rooms of leaving once.
C15_LeaveIsIdempotent ==
    [][\A s \in SocketIds, c \in ConversationIds :
         LeaveConversation(s, c) =>
            LET room == ConversationRoom(c) IN
            /\ room \notin rooms[s] =>
                  /\ rooms' = rooms
                  /\ \A e \in out' : e.ev # "error"
                  /\ UNCHANGED <<conversations, messages, socketUser,
                                 connected, activeUsers, tasks>>
            /\ LeaveRooms(rooms', s, room) = rooms'
            /\ LeaveRooms(LeaveRooms(rooms, s, room), s, room)
                  = LeaveRooms(rooms, s, room)
      ]_vars

\* C15 witness: a connection left a conversation's room it had never been in
\* (no conversation exists, so no room was ever joined) and holds its
\* personal channel still.
C15_Witness ==
    /\ last.op = "leave"
    /\ conversations = {}
    /\ rooms[last.sock] = {UserRoom(socketUser[last.sock])}
    /\ out = {Event("left-conversation", last.sock, last.conv, NoMessage, "")}

\* C16 (as claimed): a disconnect removes the user's registry entry only if
\* the disconnecting connection is the registered one; when it is not, the
\* registry is unchanged and the user is still reported online.
C16_StaleDisconnectKeepsRegistration ==
    [][\A s \in SocketIds :
         Disconnect(s) =>
            LET u == socketUser[s] IN
            /\ activeUsers[u] # s =>
                  /\ activeUsers' = activeUsers
                  /\ (activeUsers[u] # 0 => u \in OnlineUsers')
            /\ activeUsers' # activeUsers => activeUsers[u] = s
      ]_vars

\* C19 (as claimed): whatever the payload, a failure inside a handler is
\* caught at the handler: the process keeps running, and an error event goes
\* to the originating connection only.
C19_HandlerErrorsAreContained ==
    /\ last.op # "crash"
    /\ \A e \in out : e.ev = "error" => e.to = last.sock

\* The user is the receiver of the message with this id.
IsReceiver(userId, messageId) ==
    \E m \in messages : m.id = messageId /\ m.receiverId = userId

\* C11: whatever step is taken (a send-message, a mark-read, a REST read of
\* a conversation's messages, in any interleaving), a message whose read
\* flag is true is still there with a true read flag after the step.
C11_ReadFlagMonotonic ==
    [][\A m \in messages :
         m.isRead => \E n \in messages' : n.id = m.id /\ n.isRead
      ]_vars

\* C11 witness: the first message has been read, a second one has just been
\* created by a send-message, and the first is still read.
C11_Witness ==
    /\ last.op = "send.create"
    /\ last.ok
    /\ \E m, n \in messages :
          /\ m.isRead
          /\ n.id = last.msg
          /\ n.id # m.id
          /\ ~n.isRead

\* C12: a mark-read(messageId) from a connection whose user is not the
\* receiver of that message (or naming no message) ends at its update: no
\* row changes, nothing is delivered to anyone (no message-read, no error),
\* and the handler is gone; a handler that gets past its update is the
\* receiver's; and starting a mark-read delivers nothing and changes no row.
C12_MarkReadByOthersIsSilent ==
    [][/\ \A i \in 1..MaxTasks :
            (MarkUpdate(i) /\ ~IsReceiver(tasks[i].user, tasks[i].msg.id)) =>
               /\ messages' = messages
               /\ out' = {}
               /\ tasks' = Remove(tasks, i)
       /\ \A i \in 1..MaxTasks :
            MarkFind(i) => IsReceiver(tasks[i].user, tasks[i].msg.id)
       /\ \A s \in SocketIds, data \in MarkPayloads :
            MarkRead(s, data) => (out' = {} /\ messages' = messages)
      ]_vars

\* C12 witness: the update of a mark-read from a connected user who is not
\* the receiver of an existing unread message has settled: the message is
\* still unread, nothing was delivered and no mark-read is left running.
C12_Witness ==
    /\ last.op = "mark.update"
    /\ last.ok
    /\ last.sock \in connected
    /\ \E m \in messages :
          /\ m.id = last.msg
          /\ m.receiverId # socketUser[last.sock]
          /\ ~m.isRead
    /\ out = {}
    /\ \A i \in 1..Len(tasks) : tasks[i].kind # "mark"

C20_StoreFailureIsReported ==
    (/\ last.op \in {"join.find", "send.find", "send.create", "send.update",
                     "mark.update", "mark.find"}
     /\ ~last.ok
     /\ last.sock \in connected)
       => \E e \in out : e.ev = "error" /\ e.to = last.sock

\* C17 (as claimed): a connection attempt whose credential is missing, not
\* valid, expired or denylisted is refused whatever the denylist lookup
\* does: no step of its handshake adds a connection, a registry entry or a
\* room.
C17_BadCredentialRefused ==
    [][\A i \in 1..MaxTasks :
         ((AuthExists(i) \/ AuthUser(i))
            /\ (tasks[i].token.kind # "signed" \/ tasks[i].token.denylisted))
         => UNCHANGED <<socketUser, connected, rooms, activeUsers>>
      ]_vars

\* C18 (as claimed): every refused connection attempt shows the client the
\* same error, whatever the cause of the refusal.
C18_RefusalsLookAlike ==
    \A e \in out : e.ev = "connect_error" => e.text = "Authentication error"

\* C21 (as claimed): for any two users and a product there is at most one
\* conversation between them about it, in either user1/user2 order, however
\* concurrent POST /messages/conversation requests interleave.
C21_OneConversationPerTriple ==
    \A c, d \in conversations :
        (/\ {c.user1Id, c.user2Id} = {d.user1Id, d.user2Id}
         /\ c.productId = d.productId)
           => c = d

C28_PersonalChannelIsOwn ==
    /\ \A s \in SocketIds, u \in Users :
          <<"user", u>> \in rooms[s] <=> (s \in connected /\ socketUser[s] = u)
    /\ \A e \in out :
          e.ev = "message-notification" =>
             /\ e.to \in connected
             /\ socketUser[e.to] = e.msg.receiverId

\* C28 witness: a notification reached the receiver's connection while a
\* live connection of another user, which had joined and left a
\* conversation's room or not, got none; its only personal channel is its
\* own.
C28_Witness ==
    \E e \in out, s \in connected :
        /\ e.ev = "message-notification"
        /\ socketUser[s] # e.msg.receiverId
        /\ \A f \in out : f.ev = "message-notification" => f.to # s
        /\ <<"user", socketUser[s]>> \in rooms[s]
        /\ <<"user", e.msg.receiverId>> \in rooms[e.to]

\* C29: every user the registry holds (the users GET /online lists) has a
\* live connection: the one the registry names is live and is that user's.
C29_OnlineUsersAreConnected ==
    /\ \A u \in OnlineUsers :
          /\ activeUsers[u] \in connected
          /\ socketUser[activeUsers[u]] = u
    /\ \A e \in out :
          (e.ev = "http" /\ last.op = "online") =>
             \A u \in e.onlineUsers : \E s \in connected : socketUser[s] = u

\* C29 witness: a user's connection has just gone, the user has none left
\* and is not listed, while another user is online.
C29_Witness ==
    /\ last.op = "disconnect"
    /\ socketUser[last.sock] \notin OnlineUsers
    /\ \A s \in connected : socketUser[s] # socketUser[last.sock]
    /\ OnlineUsers # {}

\* C25 (as claimed): user-typing and user-stopped-typing for conversation C
\* are delivered only when the emitting connection's user is a participant
\* of C.
C25_TypingOnlyFromParticipants ==
    \A e \in out :
        e.ev \in {"user-typing", "user-stopped-typing"} =>
           socketUser[last.sock] \in Participants(e.conv)

\* C26 (as claimed): GET /messages/conversation/:conversationId by a
\* participant U of conversation C changes only messages of C addressed to
\* U; asked by a non-participant it answers 404 and changes no message.
C26_ReadMarksOnlyTheConversation ==
    [][\A i \in 1..MaxTasks :
         /\ GetUpdateMany(i) =>
               \A m \in messages \ messages' :
                  /\ m \in ConversationMessages(tasks[i].found)
                  /\ m.receiverId = tasks[i].user
         /\ (GetFind(i) /\ last'.ok
               /\ tasks[i].user \notin Participants(tasks[i].conv)) =>
               /\ out' = MessagesResponse("404", tasks[i].conv, {})
               /\ tasks' = Remove(tasks, i)
               /\ messages' = messages
      ]_vars

\* C27 (as claimed): the unreadCount GET /messages/conversations reads for
\* conversation C of user U is the number of unread messages of C addressed
\* to U, at the moment the count is read.
C27_UnreadCountOfConversation ==
    [][\A i \in 1..MaxTasks, c \in conversations :
         (ListCount(i, c) /\ last'.ok) =>
            tasks'[i].unreadCount[c.id] =
               Cardinality({m \in ConversationMessages(c) :
                               m.receiverId = tasks[i].user /\ ~m.isRead})
      ]_vars

\* The send-message handler of this content is suspended on a query.
SendPending(content) ==
    \E i \in 1..Len(tasks) :
        tasks[i].kind = "send" /\ tasks[i].content = content

\* C23: delivery order is not guaranteed: while the handler of the first
\* message "a" is suspended, the handler of the second message "b" of the
\* same conversation can take its next step; and when that is its last
\* query, it may settle and the new-message of "b" be broadcast before that
\* of "a".
C23_DeliveryOrderNotGuaranteed ==
    \A i, j \in 1..Len(tasks) :
        (/\ Idle
         /\ tasks[i].kind = "send" /\ tasks[i].content = FirstContent
         /\ tasks[j].kind = "send" /\ tasks[j].content = SecondContent
         /\ tasks[i].conv = tasks[j].conv)
           => /\ ENABLED (SendFind(j) \/ SendCreate(j) \/ SendUpdate(j))
              /\ tasks[j].pc = "update" =>
                    ENABLED (/\ SendUpdate(j)
                             /\ last'.ok
                             /\ \A e \in NewMessageEmit(tasks[j]) : e \in out')

\* C23 witness: the new-message of "b", issued second, has been delivered
\* to a connection in the room while the handler of "a", issued first, has
\* stored its message and not yet broadcast it.
C23_Witness ==
    /\ last.op = "send.update"
    /\ last.ok
    /\ \E e \in out :
          /\ e.ev = "new-message"
          /\ e.msg.content = SecondContent.chars
    /\ \E i \in 1..Len(tasks), m \in messages :
          /\ tasks[i].kind = "send"
          /\ tasks[i].content = FirstContent
          /\ tasks[i].conv = last.conv
          /\ tasks[i].pc = "update"
          /\ tasks[i].msg = m
          /\ m.id < last.msg

\* The events of a step that are new-message broadcasts.
NewMessages(events) == {e \in events : e.ev = "new-message"}

\* C24: a send-message has exactly one outcome.  A step of its handler that
\* does not end it delivers nothing; the step that ends it either delivers
\* one error event to the sender (while connected) and no new-message, or
\* broadcasts new-message for the one message the handler created and
\* delivers no error; and, its queries returning or failing, a suspended
\* handler does end.
C24_ExactlyOneOutcome ==
    /\ [][/\ \A s \in SocketIds, c \in ConversationIds,
               content \in {FirstContent, SecondContent, Str(<<>>)},
               p \in ClientProductIds :
               SendMessage(s, c, content, p) =>
                  IF Len(tasks') > Len(tasks)
                  THEN out' = {}
                  ELSE /\ \E text \in {"Message content cannot be empty",
                                       "Failed to send message"} :
                             out' = {ErrorEvent(s, text)}
                       /\ messages' = messages
          /\ \A i \in 1..MaxTasks :
               (SendFind(i) \/ SendCreate(i)) =>
                  IF Len(tasks') = Len(tasks)
                  THEN out' = {}
                  ELSE /\ out' \subseteq
                             {ErrorEvent(tasks[i].sock, "Conversation not found"),
                              ErrorEvent(tasks[i].sock, "Failed to send message")}
                       /\ Cardinality(out') =
                             IF tasks[i].sock \in connected THEN 1 ELSE 0
                       /\ messages' = messages
          /\ \A i \in 1..MaxTasks :
               SendUpdate(i) =>
                  /\ Len(tasks') < Len(tasks)
                  /\ IF last'.ok
                     THEN /\ \A e \in out' : e.ev # "error"
                          /\ \A e \in NewMessages(out') :
                                /\ e.msg = tasks[i].msg
                                /\ e.msg \in messages
                          /\ \A s \in connected :
                                ConversationRoom(tasks[i].conv) \in rooms[s] =>
                                   \E e \in NewMessages(out') : e.to = s
                     ELSE /\ out' \subseteq
                                {ErrorEvent(tasks[i].sock,
                                            "Failed to send message")}
                          /\ Cardinality(out') =
                                IF tasks[i].sock \in connected THEN 1 ELSE 0
         ]_vars
    /\ SendPending(FirstContent) ~> ~SendPending(FirstContent)
    /\ SendPending(SecondContent) ~> ~SendPending(SecondContent)

\* C24 witness: the handler of "b" has ended with a broadcast that reached
\* its sender and no error, after the handler of "a" had ended.
C24_Witness ==
    /\ last.op = "send.update"
    /\ last.ok
    /\ ~SendPending(FirstContent)
    /\ ~SendPending(SecondContent)
    /\ \A e \in out : e.ev # "error"
    /\ \E e \in out :
          /\ e.ev = "new-message"
          /\ e.to = last.sock
          /\ e.msg.content = SecondContent.chars

=============================================================================
